---- MODULE Spec2Model ----
(***************************************************************************)
(* A model of python-substratestack (src/substratestack/__init__.py): the  *)
(* SubstrateStack object graph (layers, interfaces, metals, vias) and its  *)
(* operations add_oxide_layer_on_top, add_metal_layer, add_via,            *)
(* remove_metal_layer_by_name, split_oxide_layer, standardize,             *)
(* merge_oxide_layers, simplify and the two exporters.                     *)
(*                                                                         *)
(* Objects live in per-class heaps (sequences of records); an object is    *)
(* named by its index in its heap and None is 0, so that object identity   *)
(* (Python's `is`, list.index, list.remove) is identity of indices and an  *)
(* object dropped from a list of the stack can still be referenced.        *)
(* Lengths are integers in an arbitrary length unit; permittivities and    *)
(* loss tangents are exact fractions <<numerator, denominator>>.           *)
(* An operation that raises leaves whatever it had already mutated: every  *)
(* operator below returns the state it reached and whether it returned     *)
(* normally (ok).                                                          *)
(*                                                                         *)
(* Python frees the objects nothing references any more, and a program     *)
(* cannot observe which name an object has: after each call the objects    *)
(* still reachable from the stack are renumbered in a fixed order (the     *)
(* listed ones first, in list order) and the others are dropped.           *)
(***************************************************************************)
EXTENDS Integers, Sequences, FiniteSets, TLC

\* ------------------------------------------------------------------ bounds
\* Spec: every operation, on small stacks
\* oxide layers add_oxide_layer_on_top may stack up
MaxOxide == 3
\* the oxide stack is built up to this height, in length units
MaxHeight == 4
\* metal objects handed to add_metal_layer
MaxMetals == 1
\* via objects handed to add_via
MaxVias == 1
\* metal thicknesses are drawn from 1..MaxMetalThickness
MaxMetalThickness == 2
\* layer objects alive at a time (the bulk included)
MaxLayerObjects == 7
\* interface objects alive at a time
MaxInterfaceObjects == 6

\* SpecPipeline: build a stack, attach metals, standardize, simplify
PipeOxide == 4
PipeHeight == 6
PipeMetals == 2
PipeMetalThickness == 2
PipeLayerObjects == 12
PipeInterfaceObjects == 12

\* SpecSeries: the series-dielectric example, in micrometers
SeriesOxide == 3
SeriesHeight == 60
SeriesLayerObjects == 5
SeriesInterfaceObjects == 5

\* SpecVias: metals, the vias between them, and the exporters
ViaOxide == 2
ViaHeight == 2
ViaMetals == 2
ViaVias == 2
ViaMetalThickness == 2
ViaLayerObjects == 6
ViaInterfaceObjects == 6

\* calls that raise which the caller catches and carries on after
MaxRaised == 1

\* ------------------------------------------------------- program constants
DOWN == -1
UP == 1
None == 0
\* the bulk layer is the first layer object, its top the first interface
BulkLayer == 1
BulkThickness == 3

\* what get_interface_position returns for an interface that is not in
\* stack.interfaces (Python's None): a value below every length.  Python 2
\* orders None below every number in a comparison, and arithmetic on it
\* raises TypeError.
NonePosition == -1000

\* ---------------------------------------------------------------- inputs
\* (thickness, epsilon_rel, loss_tangent) of the oxide layers callers add
OxideChoices == { <<1, 4, 0>>, <<2, 4, 0>> }
\* the layers of the series-dielectric example, in micrometers
SeriesChoices == { <<10, 4, 0>>, <<20, 7, 0>> }

VARIABLES
    layers,        \* heap of SubstrateLayer objects
    itfs,          \* heap of Interface objects
    metals,        \* heap of MetalLayer objects
    viaobjs,       \* heap of Via objects
    interfaces,    \* stack.interfaces: interface indices, bottom to top
    oxide_layers,  \* stack.oxide_layers: layer indices
    metal_layers,  \* stack.metal_layers: metal indices, in insertion order
    vias,          \* stack.vias: via indices
    op,            \* the last operation called and whether it returned
    raised         \* how many calls have raised so far

stackvars == <<layers, itfs, metals, viaobjs, interfaces, oxide_layers,
               metal_layers, vias>>
vars == <<layers, itfs, metals, viaobjs, interfaces, oxide_layers,
          metal_layers, vias, op, raised>>

\* ------------------------------------------------------------- fractions
RECURSIVE GCD(_, _)
GCD(a, b) == IF b = 0 THEN a ELSE GCD(b, a % b)

Frac(n, d) == LET g == GCD(n, d) IN IF g = 0 THEN <<0, 1>> ELSE <<n \div g, d \div g>>
FracAdd(x, y) == Frac(x[1] * y[2] + y[1] * x[2], x[2] * y[2])
\* the integer t divided by the fraction x (x # 0)
IntDivFrac(t, x) == Frac(t * x[2], x[1])
\* the fraction x divided by the integer t (t # 0)
FracDivInt(x, t) == Frac(x[1], x[2] * t)
IntMulFrac(t, x) == Frac(t * x[1], x[2])

\* ------------------------------------------------------------ Python lists
\* list.index: the place (from 1) of the first x in s, 0 when there is none
RECURSIVE IndexFrom(_, _, _)
IndexFrom(s, x, k) ==
    IF k > Len(s) THEN 0
    ELSE IF s[k] = x THEN k
    ELSE IndexFrom(s, x, k + 1)
Index(s, x) == IndexFrom(s, x, 1)
Contains(s, x) == Index(s, x) # 0
\* list.remove of an x that is in s
Remove(s, x) ==
    LET k == Index(s, x) IN SubSeq(s, 1, k - 1) \o SubSeq(s, k + 1, Len(s))
\* list.insert(n, x), n counted from 0
Insert(s, n, x) ==
    LET k == IF n > Len(s) THEN Len(s) ELSE n
    IN SubSeq(s, 1, k) \o <<x>> \o SubSeq(s, k + 1, Len(s))
\* list.reverse
Reverse(s) == [k \in 1..Len(s) |-> s[Len(s) + 1 - k]]
\* s[b:t+1] with b and t counted from 0
Slice(s, b, t) == SubSeq(s, b + 1, t + 1)

\* ------------------------------------------------------------ the objects
NewLayer(thickness, epsilon_rel, loss_tangent) ==
    [thickness |-> thickness, epsilon_rel |-> epsilon_rel,
     loss_tangent |-> loss_tangent,
     top_interface |-> None, bottom_interface |-> None]

NewInterface(bottom_layer, top_layer) ==
    [bottom_layer |-> bottom_layer, top_layer |-> top_layer, metal |-> None]

NewMetal(name, thickness, extend_direction) ==
    [name |-> name, thickness |-> thickness,
     extend_direction |-> extend_direction,
     top_interface |-> None, bottom_interface |-> None,
     top_via |-> None, bottom_via |-> None]

\* SubstrateStack.__init__
NewStack ==
    [layers |-> << [NewLayer(BulkThickness, <<12, 1>>, <<0, 1>>)
                      EXCEPT !.top_interface = 1] >>,
     itfs |-> << NewInterface(BulkLayer, None) >>,
     metals |-> << >>,
     viaobjs |-> << >>,
     interfaces |-> << 1 >>,
     oxide_layers |-> << >>,
     metal_layers |-> << >>,
     vias |-> << >>]

\* the stack as one record
Cur ==
    [layers |-> layers, itfs |-> itfs, metals |-> metals, viaobjs |-> viaobjs,
     interfaces |-> interfaces, oxide_layers |-> oxide_layers,
     metal_layers |-> metal_layers, vias |-> vias]

Done(st) == [st |-> st, ok |-> TRUE]
Raise(st) == [st |-> st, ok |-> FALSE]

\* -------------------------------------------------------- position queries
\* a faulty variant of get_interface_number: the index is one too high
GetInterfaceNumberNext(st, itf) == Index(st.interfaces, itf) + 1

\* get_interface_number: list.index, 0 when it raises ValueError
GetInterfaceNumber(st, itf) == Index(st.interfaces, itf)

\* a faulty variant of the sum of get_interface_position: it does not start
\* from minus the thickness of the bulk
RECURSIVE PositionSumWithBulk(_, _)
PositionSumWithBulk(st, k) ==
    IF k = 0 THEN 0
    ELSE PositionSumWithBulk(st, k - 1)
         + st.layers[st.itfs[st.interfaces[k]].bottom_layer].thickness

RECURSIVE PositionSum(_, _)
PositionSum(st, k) ==
    IF k = 0 THEN 0 - st.layers[BulkLayer].thickness
    ELSE PositionSum(st, k - 1)
         + st.layers[st.itfs[st.interfaces[k]].bottom_layer].thickness

GetInterfacePosition(st, itf) ==
    LET k == Index(st.interfaces, itf)
    IN IF k = 0 THEN NonePosition ELSE PositionSum(st, k)

RECURSIVE HeightSum(_, _)
HeightSum(st, k) ==
    IF k = 0 THEN 0
    ELSE HeightSum(st, k - 1) + st.layers[st.oxide_layers[k]].thickness

GetStackHeight(st) == HeightSum(st, Len(st.oxide_layers))

\* get_interface_by_position: the first interface of the list at `position`
\* (lengths are whole units, so within 1e-15 is equality), or None
RECURSIVE InterfaceByPositionFrom(_, _, _)
InterfaceByPositionFrom(st, position, k) ==
    IF k > Len(st.interfaces) THEN None
    ELSE IF PositionSum(st, k) = position THEN st.interfaces[k]
    ELSE InterfaceByPositionFrom(st, position, k + 1)
GetInterfaceByPosition(st, position) == InterfaceByPositionFrom(st, position, 1)

\* --------------------------------------------------------------- splitting
\* split_oxide_layer: the loop over enumerate(self.oxide_layers), which sees
\* the layers it inserts.  i counts from 0.  ret is the interface returned.
RECURSIVE SplitLoop(_, _, _, _)
SplitLoop(st, position, i, new_interface) ==
    IF i >= Len(st.oxide_layers)
    THEN [st |-> st, ok |-> TRUE, ret |-> new_interface]
    ELSE
      LET oxide_layer == st.oxide_layers[i + 1]
          top_itf == st.layers[oxide_layer].top_interface
          oxide_top == GetInterfacePosition(st, top_itf)
          oxide_bottom ==
              GetInterfacePosition(st, st.layers[oxide_layer].bottom_interface)
      IN IF ~(oxide_top > position /\ position > oxide_bottom)
         THEN SplitLoop(st, position, i + 1, new_interface)
         ELSE IF oxide_bottom = NonePosition
         THEN [st |-> st, ok |-> FALSE, ret |-> None]    \* position - None
         ELSE
           LET new_oxide_layer == Len(st.layers) + 1
               itf == Len(st.itfs) + 1
               number == GetInterfaceNumber(st, top_itf) - 1
               st1 == [st EXCEPT
                   !.layers = Append(
                       [@ EXCEPT ![oxide_layer].thickness = position - oxide_bottom,
                                 ![oxide_layer].top_interface = itf],
                       [NewLayer(oxide_top - position,
                                 st.layers[oxide_layer].epsilon_rel,
                                 st.layers[oxide_layer].loss_tangent)
                          EXCEPT !.bottom_interface = itf,
                                 !.top_interface = top_itf]),
                   !.itfs = Append(
                       [@ EXCEPT ![top_itf].bottom_layer = new_oxide_layer],
                       NewInterface(oxide_layer, new_oxide_layer)),
                   !.interfaces = Insert(@, number, itf),
                   !.oxide_layers = Insert(@, i + 1, new_oxide_layer)]
           IN SplitLoop(st1, position, i + 1, itf)

SplitOxideLayer(st, position) == SplitLoop(st, position, 0, None)

\* ----------------------------------------------------------- standardizing
IsStandardMetal(st, m) ==
    /\ st.metals[m].top_interface # None
    /\ st.metals[m].bottom_interface # None
    /\ st.metals[m].extend_direction = UP

IsStandard(st) ==
    \A k \in 1..Len(st.metal_layers) : IsStandardMetal(st, st.metal_layers[k])

\* standardize takes what split_oxide_layer returned (r) as the bottom
\* interface of metal m
SetBottomInterface(r, m) ==
    IF ~r.ok THEN Raise(r.st)
    ELSE Done([r.st EXCEPT !.metals[m].bottom_interface = r.ret])

\* standardize takes what split_oxide_layer returned (r) as the top interface
\* of metal m
SetTopInterface(r, m) ==
    IF ~r.ok THEN Raise(r.st)
    ELSE Done([r.st EXCEPT !.metals[m].top_interface = r.ret])

\* a faulty variant: the bottom interface of a metal that extends down is
\* taken to be its top interface
CreateBottomInterfaceAtTop(st, m, top_position, bottom_interface) ==
    IF top_position = NonePosition THEN Raise(st)
    ELSE Done([st EXCEPT !.metals[m].bottom_interface = st.metals[m].top_interface])

\* metal m extends down from top_position: its bottom interface is the one
\* at bottom_position, or the one a split there makes
CreateBottomInterface(st, m, top_position, bottom_interface) ==
    IF top_position = NonePosition THEN Raise(st)       \* None - thickness
    ELSE IF bottom_interface # None
    THEN Done([st EXCEPT !.metals[m].bottom_interface = bottom_interface])
    ELSE SetBottomInterface(
             SplitOxideLayer(st, top_position - st.metals[m].thickness), m)

\* metal m extends up from bottom_position: its top interface is the one at
\* top_position, or the one a split there makes
CreateTopInterface(st, m, bottom_position, top_interface) ==
    IF bottom_position = NonePosition THEN Raise(st)    \* None + thickness
    ELSE IF top_interface # None
    THEN Done([st EXCEPT !.metals[m].top_interface = top_interface])
    ELSE SetTopInterface(
             SplitOxideLayer(st, bottom_position + st.metals[m].thickness), m)

\* the position the metal's thickness away (direction: DOWN or UP) from the
\* interface itf
FarPosition(st, itf, direction, thickness) ==
    GetInterfacePosition(st, itf) + direction * thickness

\* the body of standardize's first loop for one metal
CreateInterface(st, m) ==
    LET metal_layer == st.metals[m]
    IN IF metal_layer.top_interface # None /\ metal_layer.bottom_interface = None
       THEN \* metal extends down
         CreateBottomInterface(st, m,
             GetInterfacePosition(st, metal_layer.top_interface),
             GetInterfaceByPosition(st,
                 FarPosition(st, metal_layer.top_interface, DOWN,
                             metal_layer.thickness)))
       ELSE IF metal_layer.bottom_interface # None /\ metal_layer.top_interface = None
       THEN \* metal extends up
         CreateTopInterface(st, m,
             GetInterfacePosition(st, metal_layer.bottom_interface),
             GetInterfaceByPosition(st,
                 FarPosition(st, metal_layer.bottom_interface, UP,
                             metal_layer.thickness)))
       ELSE Done(st)

RECURSIVE CreateInterfaces(_, _)
CreateInterfaces(st, k) ==
    IF k > Len(st.metal_layers) THEN Done(st)
    ELSE LET r == CreateInterface(st, st.metal_layers[k])
         IN IF ~r.ok THEN r ELSE CreateInterfaces(r.st, k + 1)

\* the body of standardize's second loop for one metal
ExtendUp(st, m) ==
    LET metal_layer == st.metals[m]
    IN IF metal_layer.extend_direction # DOWN THEN Done(st)
       ELSE IF metal_layer.top_interface = None THEN Raise(st)
       ELSE LET st1 == [st EXCEPT !.itfs[metal_layer.top_interface].metal = None]
            IN IF metal_layer.bottom_interface = None THEN Raise(st1)
               ELSE Done([st1 EXCEPT
                      !.itfs[metal_layer.bottom_interface].metal = m,
                      !.metals[m].extend_direction = UP])

RECURSIVE ExtendAllUp(_, _)
ExtendAllUp(st, k) ==
    IF k > Len(st.metal_layers) THEN Done(st)
    ELSE LET r == ExtendUp(st, st.metal_layers[k])
         IN IF ~r.ok THEN r ELSE ExtendAllUp(r.st, k + 1)

Standardize(st) ==
    LET r == CreateInterfaces(st, 1)
    IN IF ~r.ok THEN r ELSE ExtendAllUp(r.st, 1)

\* if not self.is_standard(): self.standardize()
Standardized(st) == IF IsStandard(st) THEN Done(st) ELSE Standardize(st)

\* ------------------------------------------------------------------ merging
\* a faulty variant of the loop's totals: total_thickness is not added to
AccumulateNoThickness(acc, oxide_layer) ==
    [thickness |-> acc.thickness,
     epsilon_rel |->
         FracAdd(acc.epsilon_rel,
                 IntDivFrac(oxide_layer.thickness, oxide_layer.epsilon_rel)),
     loss_tangent |->
         FracAdd(acc.loss_tangent,
                 IntMulFrac(oxide_layer.thickness, oxide_layer.loss_tangent))]

\* a faulty variant of the loop's totals: the permittivities are weighted by
\* the thicknesses (thickness * epsilon_rel) instead of the thicknesses by them
AccumulateProduct(acc, oxide_layer) ==
    [thickness |-> acc.thickness + oxide_layer.thickness,
     epsilon_rel |->
         FracAdd(acc.epsilon_rel,
                 IntMulFrac(oxide_layer.thickness, oxide_layer.epsilon_rel)),
     loss_tangent |->
         FracAdd(acc.loss_tangent,
                 IntMulFrac(oxide_layer.thickness, oxide_layer.loss_tangent))]

\* the three totals of merge_oxide_layers' loop after one more layer
Accumulate(acc, oxide_layer) ==
    [thickness |-> acc.thickness + oxide_layer.thickness,
     epsilon_rel |->
         FracAdd(acc.epsilon_rel,
                 IntDivFrac(oxide_layer.thickness, oxide_layer.epsilon_rel)),
     loss_tangent |->
         FracAdd(acc.loss_tangent,
                 IntMulFrac(oxide_layer.thickness, oxide_layer.loss_tangent))]

\* merge_oxide_layers' loop over enumerate(oxide_layers[1:]); i counts from 0
\* and run[i + 2] is the loop's oxide_layer.  acc carries the three totals.
\* MergeRemove is the end of the loop's body: self.oxide_layers.remove
RECURSIVE MergeLoop(_, _, _, _)
RECURSIVE MergeRemove(_, _, _, _)
MergeRemove(st, run, i, acc) ==
    IF ~Contains(st.oxide_layers, run[i + 2])
    THEN [st |-> st, ok |-> FALSE, acc |-> acc]              \* ValueError
    ELSE MergeLoop([st EXCEPT !.oxide_layers = Remove(@, run[i + 2])],
                   run, i + 1, acc)

MergeLoop(st, run, i, acc) ==
    IF i + 2 > Len(run) THEN [st |-> st, ok |-> TRUE, acc |-> acc]
    ELSE
      LET oxide_layer == st.layers[run[i + 2]]
          itf == oxide_layer.bottom_interface
      IN IF itf # st.layers[run[i + 1]].top_interface
         THEN [st |-> st, ok |-> FALSE, acc |-> acc]
         ELSE IF itf = None \/ st.itfs[itf].metal # None
         THEN [st |-> st, ok |-> FALSE, acc |-> acc]
         ELSE IF ~Contains(st.interfaces, itf)
         THEN [st |-> st, ok |-> FALSE, acc |-> acc]         \* ValueError
         ELSE MergeRemove([st EXCEPT !.interfaces = Remove(@, itf)],
                          run, i, Accumulate(acc, oxide_layer))

\* the totals merge_oxide_layers starts its loop with
FirstTotals(oxide_layer) ==
    [thickness |-> oxide_layer.thickness,
     epsilon_rel |-> IntDivFrac(oxide_layer.thickness, oxide_layer.epsilon_rel),
     loss_tangent |-> IntMulFrac(oxide_layer.thickness, oxide_layer.loss_tangent)]

\* the end of merge_oxide_layers: the merged layer (the new layer object
\* merged_oxide_layer) is linked to the two interfaces and inserted
MergeLink(st, top_interface, bottom_interface, insert_position, merged_oxide_layer) ==
    IF top_interface = None THEN Raise(st)
    ELSE IF bottom_interface = None
    THEN Raise([st EXCEPT !.itfs[top_interface].bottom_layer = merged_oxide_layer])
    ELSE Done([st EXCEPT
           !.itfs[top_interface].bottom_layer = merged_oxide_layer,
           !.itfs[bottom_interface].top_layer = merged_oxide_layer,
           !.oxide_layers = Insert(@, insert_position, merged_oxide_layer)])

\* merge_oxide_layers after its loop, which ended as r says
MergeInsert(r, first, top_interface, bottom_interface, insert_position, merged_oxide_layer) ==
    IF ~r.ok THEN Raise(r.st)
    ELSE IF ~Contains(r.st.oxide_layers, first) THEN Raise(r.st)
    ELSE MergeLink(
             [r.st EXCEPT
                !.oxide_layers = Remove(@, first),
                !.layers = Append(@,
                    [NewLayer(r.acc.thickness,
                              IntDivFrac(r.acc.thickness, r.acc.epsilon_rel),
                              FracDivInt(r.acc.loss_tangent, r.acc.thickness))
                       EXCEPT !.top_interface = top_interface,
                              !.bottom_interface = bottom_interface])],
             top_interface, bottom_interface, insert_position,
             merged_oxide_layer)

MergeOxideLayers(st, run) ==
    IF ~(Len(run) > 1) THEN Raise(st)
    ELSE IF ~Contains(st.oxide_layers, run[1]) THEN Raise(st)   \* ValueError
    ELSE MergeInsert(MergeLoop(st, run, 0, FirstTotals(st.layers[run[1]])),
                     run[1],
                     st.layers[run[Len(run)]].top_interface,
                     st.layers[run[1]].bottom_interface,
                     Index(st.oxide_layers, run[1]) - 1,
                     Len(st.layers) + 1)

\* -------------------------------------------------------------- simplifying
\* simplify's loop over self.metal_layers; bottom_oxide_layer_index counts
\* from 0.  SimplifyNext is the end of the loop's body, after the
\* merge_oxide_layers that ended as r says.
RECURSIVE SimplifyLoop(_, _, _)
RECURSIVE SimplifyNext(_, _, _, _)
SimplifyNext(r, k, bottom_interface, bottom_oxide_layer_index) ==
    IF ~r.ok \/ ~Contains(r.st.oxide_layers, r.st.itfs[bottom_interface].top_layer)
    THEN [st |-> r.st, ok |-> FALSE, bottom |-> bottom_oxide_layer_index]
    ELSE SimplifyLoop(r.st, k + 1,
             Index(r.st.oxide_layers, r.st.itfs[bottom_interface].top_layer) - 1)

SimplifyLoop(st, k, bottom_oxide_layer_index) ==
    IF k > Len(st.metal_layers)
    THEN [st |-> st, ok |-> TRUE, bottom |-> bottom_oxide_layer_index]
    ELSE
      LET bottom_interface == st.metals[st.metal_layers[k]].bottom_interface
      IN IF bottom_interface = None
         THEN [st |-> st, ok |-> FALSE, bottom |-> bottom_oxide_layer_index]
         ELSE IF st.itfs[bottom_interface].bottom_layer = BulkLayer
         THEN SimplifyLoop(st, k + 1, bottom_oxide_layer_index)
         ELSE IF ~Contains(st.oxide_layers, st.itfs[bottom_interface].bottom_layer)
         THEN [st |-> st, ok |-> FALSE, bottom |-> bottom_oxide_layer_index]
         ELSE SimplifyNext(
                  MergeOxideLayers(st,
                      Slice(st.oxide_layers, bottom_oxide_layer_index,
                            Index(st.oxide_layers,
                                  st.itfs[bottom_interface].bottom_layer) - 1)),
                  k, bottom_interface, bottom_oxide_layer_index)

\* a faulty variant of the end of simplify: the run above the last metal is
\* not merged
SimplifyTopNoMerge(r) ==
    LET last == r.st.interfaces[Len(r.st.interfaces)]
    IN IF ~r.ok \/ ~Contains(r.st.oxide_layers, r.st.itfs[last].bottom_layer)
       THEN Raise(r.st)
       ELSE Done(r.st)

\* the end of simplify, after its loop, which ended as r says: the layers up
\* to the top of the stack are merged
SimplifyTop(r) ==
    LET last == r.st.interfaces[Len(r.st.interfaces)]
    IN IF ~r.ok \/ ~Contains(r.st.oxide_layers, r.st.itfs[last].bottom_layer)
       THEN Raise(r.st)
       ELSE MergeOxideLayers(r.st,
                Slice(r.st.oxide_layers, r.bottom,
                      Index(r.st.oxide_layers, r.st.itfs[last].bottom_layer) - 1))

\* simplify once the stack is standard (r: how standardize ended, if called)
SimplifyStandard(r) ==
    LET first == r.st.itfs[r.st.layers[BulkLayer].top_interface].top_layer
    IN IF ~r.ok \/ ~Contains(r.st.oxide_layers, first) THEN Raise(r.st)
       ELSE SimplifyTop(SimplifyLoop(r.st, 1, Index(r.st.oxide_layers, first) - 1))

Simplify(st) == SimplifyStandard(Standardized(st))

\* ------------------------------------------------------------ metals, vias
RECURSIVE MetalByNameFrom(_, _, _)
MetalByNameFrom(st, name, k) ==
    IF k > Len(st.metal_layers) THEN None
    ELSE IF st.metals[st.metal_layers[k]].name = name THEN st.metal_layers[k]
    ELSE MetalByNameFrom(st, name, k + 1)
GetMetalLayerByName(st, name) == MetalByNameFrom(st, name, 1)

RECURSIVE ViaByTopMetalFrom(_, _, _)
ViaByTopMetalFrom(st, top_metal, k) ==
    IF k > Len(st.vias) THEN None
    ELSE IF st.viaobjs[st.vias[k]].top_metal = top_metal THEN st.vias[k]
    ELSE ViaByTopMetalFrom(st, top_metal, k + 1)
GetViaByTopMetal(st, top_metal) == ViaByTopMetalFrom(st, top_metal, 1)

RECURSIVE ViaByBottomMetalFrom(_, _, _)
ViaByBottomMetalFrom(st, bottom_metal, k) ==
    IF k > Len(st.vias) THEN None
    ELSE IF st.viaobjs[st.vias[k]].bottom_metal = bottom_metal THEN st.vias[k]
    ELSE ViaByBottomMetalFrom(st, bottom_metal, k + 1)
GetViaByBottomMetal(st, bottom_metal) == ViaByBottomMetalFrom(st, bottom_metal, 1)

\* a faulty variant of add_oxide_layer_on_top: the new top interface is not
\* appended to stack.interfaces
AddOxideLayerOnTopNoInterface(st, thickness, epsilon_rel, loss_tangent) ==
    LET oxide_layer == Len(st.layers) + 1
        bottom_interface == st.interfaces[Len(st.interfaces)]
        top_interface == Len(st.itfs) + 1
    IN Done([st EXCEPT
           !.itfs = Append([@ EXCEPT ![bottom_interface].top_layer = oxide_layer],
                           NewInterface(oxide_layer, None)),
           !.layers = Append(@,
               [NewLayer(thickness, epsilon_rel, loss_tangent)
                  EXCEPT !.bottom_interface = bottom_interface,
                         !.top_interface = top_interface]),
           !.oxide_layers = Append(@, oxide_layer)])

\* add_oxide_layer_on_top
AddOxideLayerOnTop(st, thickness, epsilon_rel, loss_tangent) ==
    LET oxide_layer == Len(st.layers) + 1
        bottom_interface == st.interfaces[Len(st.interfaces)]
        top_interface == Len(st.itfs) + 1
    IN Done([st EXCEPT
           !.itfs = Append([@ EXCEPT ![bottom_interface].top_layer = oxide_layer],
                           NewInterface(oxide_layer, None)),
           !.layers = Append(@,
               [NewLayer(thickness, epsilon_rel, loss_tangent)
                  EXCEPT !.bottom_interface = bottom_interface,
                         !.top_interface = top_interface]),
           !.interfaces = Append(@, top_interface),
           !.oxide_layers = Append(@, oxide_layer)])

\* add_metal_layer of a new MetalLayer object; interface_number counts from 0
\* and a negative one counts from the end of the list, as Python indexes
AddMetalLayer(st, thickness, extend_direction, interface_number) ==
    LET metal_layer == Len(st.metals) + 1
        st1 == [st EXCEPT
                  !.metals = Append(@, NewMetal(metal_layer, thickness,
                                                extend_direction)),
                  !.metal_layers = Append(@, metal_layer)]
        n == IF interface_number < 0
             THEN Len(st.interfaces) + interface_number + 1
             ELSE interface_number + 1
    IN IF n < 1 \/ n > Len(st.interfaces) THEN Raise(st1)     \* IndexError
       ELSE
         LET interface == st.interfaces[n]
         IN Done([st1 EXCEPT
                !.itfs[interface].metal = metal_layer,
                !.metals[metal_layer].top_interface =
                    IF extend_direction = DOWN THEN interface ELSE @,
                !.metals[metal_layer].bottom_interface =
                    IF extend_direction = DOWN THEN @ ELSE interface])

\* add_via of a new Via object
AddVia(st, metal1_name, metal2_name) ==
    LET via == Len(st.viaobjs) + 1
        metal1 == GetMetalLayerByName(st, metal1_name)
        metal2 == GetMetalLayerByName(st, metal2_name)
    IN IF metal1 = None \/ metal2 = None
       THEN Raise(st)
       ELSE
         LET metal1_interface ==
                 IF st.metals[metal1].bottom_interface # None
                 THEN st.metals[metal1].bottom_interface
                 ELSE st.metals[metal1].top_interface
             metal2_interface ==
                 IF st.metals[metal2].bottom_interface # None
                 THEN st.metals[metal2].bottom_interface
                 ELSE st.metals[metal2].top_interface
             st1 == [st EXCEPT !.vias = Append(@, via)]
         IN IF GetInterfacePosition(st, metal1_interface) >
               GetInterfacePosition(st, metal2_interface)
            THEN Done([st1 EXCEPT
                   !.viaobjs = Append(@, [top_metal |-> metal1,
                                          bottom_metal |-> metal2,
                                          stack |-> TRUE]),
                   !.metals = [[@ EXCEPT ![metal1].bottom_via = via]
                                  EXCEPT ![metal2].top_via = via]])
            ELSE Done([st1 EXCEPT
                   !.viaobjs = Append(@, [top_metal |-> metal2,
                                          bottom_metal |-> metal1,
                                          stack |-> TRUE]),
                   !.metals = [[@ EXCEPT ![metal2].bottom_via = via]
                                  EXCEPT ![metal2].top_via = via]])

\* if via: self.vias.remove(via)
RemoveVia(st, via) ==
    IF via # None THEN [st EXCEPT !.vias = Remove(@, via)] ELSE st

\* interface.metal = None, for an interface that is set
ClearMetal(st, interface) ==
    IF interface # None THEN [st EXCEPT !.itfs[interface].metal = None] ELSE st

\* remove_metal_layer_by_name once the metal is found
RemoveMetalLayer(st, metal_layer) ==
    LET st2 == ClearMetal(ClearMetal(st, st.metals[metal_layer].top_interface),
                          st.metals[metal_layer].bottom_interface)
        st3 == RemoveVia(st2, GetViaByTopMetal(st2, metal_layer))
        st4 == RemoveVia(st3, GetViaByBottomMetal(st3, metal_layer))
    IN Done([st4 EXCEPT !.metal_layers = Remove(@, metal_layer)])

RemoveMetalLayerByName(st, metal_layer_name) ==
    IF GetMetalLayerByName(st, metal_layer_name) = None THEN Raise(st)
    ELSE RemoveMetalLayer(st, GetMetalLayerByName(st, metal_layer_name))

\* get_via_height: ok is FALSE when the arithmetic meets a None position
GetViaHeight(st, via) ==
    LET bottom_metal == st.metals[st.viaobjs[via].bottom_metal]
        top_metal == st.metals[st.viaobjs[via].top_metal]
        below == IF bottom_metal.extend_direction = UP
                 THEN GetInterfacePosition(st, bottom_metal.bottom_interface)
                 ELSE GetInterfacePosition(st, bottom_metal.top_interface)
        top_of_bottom_metal ==
            IF bottom_metal.extend_direction = UP
            THEN below + bottom_metal.thickness ELSE below
        above == IF top_metal.extend_direction = DOWN
                 THEN GetInterfacePosition(st, top_metal.top_interface)
                 ELSE GetInterfacePosition(st, top_metal.bottom_interface)
        bottom_of_top_metal ==
            IF top_metal.extend_direction = DOWN
            THEN above - top_metal.thickness ELSE above
    IN IF below = NonePosition \/ above = NonePosition
       THEN [ok |-> FALSE, height |-> 0]
       ELSE [ok |-> TRUE, height |-> bottom_of_top_metal - top_of_bottom_metal]

\* Via.get_conductivity returns: 1.0 / (resistance * width**2 / height / fill)
\* raises when the height cannot be computed or is zero
ViaConductivityDefined(st, via) ==
    GetViaHeight(st, via).ok /\ GetViaHeight(st, via).height # 0

\* ---------------------------------------------------------------- exporters
\* the loop of write_momentum_substrate over the reversed oxide layers raises
\* at a layer whose bottom interface carries a metal that does not extend up,
\* or one whose lower via has no conductivity
MomentumLayerRaises(st, oxide_layer) ==
    LET metal == st.itfs[st.layers[oxide_layer].bottom_interface].metal
        via == GetViaByTopMetal(st, metal)
    IN /\ metal # None
       /\ \/ st.metals[metal].extend_direction # UP
          \/ via # None /\ ~ViaConductivityDefined(st, via)

\* write_momentum_substrate with the oxide layers reversed
WriteMomentumReversed(reversed) ==
    IF \E k \in 1..Len(reversed.oxide_layers) :
          MomentumLayerRaises(reversed, reversed.oxide_layers[k])
    THEN Raise(reversed)
    ELSE Done([reversed EXCEPT !.oxide_layers = Reverse(@)])

\* write_momentum_substrate once the stack is standard (r: how standardize
\* ended, if called)
WriteMomentumStandard(r) ==
    IF ~r.ok THEN r
    ELSE WriteMomentumReversed([r.st EXCEPT !.oxide_layers = Reverse(@)])

WriteMomentumSubstrate(st) == WriteMomentumStandard(Standardized(st))

\* a faulty variant of the records: each oxide record carries the flags
\* computed at its own layer
RECURSIVE MomentumRecordsNoCarry(_, _, _, _, _)
MomentumRecordsNoCarry(st, i, last_metal_above, last_via_inside, text) ==
    IF i >= Len(st.oxide_layers)
    THEN Append(text, [name |-> "bulk", sub |-> Len(st.oxide_layers) + 1,
                       metal_above |-> last_metal_above, via_inside |-> 0])
    ELSE
      LET metal == st.itfs[st.layers[st.oxide_layers[i + 1]].bottom_interface].metal
          metal_above == IF metal # None THEN 2 ELSE 1
          via_inside ==
              IF metal # None /\ GetViaByTopMetal(st, metal) # None THEN 1 ELSE 0
      IN MomentumRecordsNoCarry(st, i + 1, metal_above, via_inside,
             Append(text, [name |-> "ox", sub |-> i + 1,
                           metal_above |-> metal_above,
                           via_inside |-> via_inside]))

\* the SUB records write_momentum_substrate appends to text in its loop over
\* the reversed oxide layers (i counts from 0) and for the bulk after it,
\* with the two flags each record ends with
RECURSIVE MomentumRecords(_, _, _, _, _)
MomentumRecords(st, i, last_metal_above, last_via_inside, text) ==
    IF i >= Len(st.oxide_layers)
    THEN Append(text, [name |-> "bulk", sub |-> Len(st.oxide_layers) + 1,
                       metal_above |-> last_metal_above, via_inside |-> 0])
    ELSE
      LET metal == st.itfs[st.layers[st.oxide_layers[i + 1]].bottom_interface].metal
          metal_above == IF metal # None THEN 2 ELSE 1
          via_inside ==
              IF metal # None /\ GetViaByTopMetal(st, metal) # None THEN 1 ELSE 0
      IN MomentumRecords(st, i + 1, metal_above, via_inside,
             Append(text, [name |-> "ox", sub |-> i + 1,
                           metal_above |-> last_metal_above,
                           via_inside |-> last_via_inside]))

\* the records of the file write_momentum_substrate writes when it returns
\* as r says (it writes the file last, so none when it raises)
MomentumFile(r) ==
    IF ~r.ok THEN << >>
    ELSE MomentumRecords([r.st EXCEPT !.oxide_layers = Reverse(@)], 0, 1, 0, << >>)

\* write_sonnet_technology with the oxide layers reversed
WriteSonnetReversed(reversed) ==
    IF \E k \in 1..Len(reversed.vias) :
          ~ViaConductivityDefined(reversed, reversed.vias[k])
    THEN Raise(reversed)
    ELSE Done([reversed EXCEPT !.oxide_layers = Reverse(@)])

\* write_sonnet_technology once the stack is standard
WriteSonnetStandard(r) ==
    IF ~r.ok THEN r
    ELSE WriteSonnetReversed([r.st EXCEPT !.oxide_layers = Reverse(@)])

WriteSonnetTechnology(st) == WriteSonnetStandard(Standardized(st))

\* ------------------------------------------------------- garbage collection
SeqSet(s) == {s[k] : k \in 1..Len(s)}

\* the objects reachable from the objects g: layers Ls, interfaces Is,
\* metals Ms and vias Vs
RECURSIVE Reachable(_, _)
Reachable(st, g) ==
    LET Ms == (g.Ms \cup {st.itfs[i].metal : i \in g.Is}
                    \cup {st.viaobjs[v].top_metal : v \in g.Vs}
                    \cup {st.viaobjs[v].bottom_metal : v \in g.Vs}) \ {None}
        Vs == (g.Vs \cup {st.metals[m].top_via : m \in Ms}
                    \cup {st.metals[m].bottom_via : m \in Ms}) \ {None}
        Is == (g.Is \cup {st.layers[l].bottom_interface : l \in g.Ls}
                    \cup {st.layers[l].top_interface : l \in g.Ls}
                    \cup {st.metals[m].bottom_interface : m \in Ms}
                    \cup {st.metals[m].top_interface : m \in Ms}) \ {None}
        Ls == (g.Ls \cup {st.itfs[i].bottom_layer : i \in Is}
                    \cup {st.itfs[i].top_layer : i \in Is}) \ {None}
        g1 == [Ls |-> Ls, Is |-> Is, Ms |-> Ms, Vs |-> Vs]
    IN IF g1 = g THEN g ELSE Reachable(st, g1)

\* the objects the stack lists
Roots(st) ==
    [Ls |-> {BulkLayer} \cup SeqSet(st.oxide_layers),
     Is |-> SeqSet(st.interfaces),
     Ms |-> SeqSet(st.metal_layers),
     Vs |-> SeqSet(st.vias)]

\* the members of the set S of numbers, in increasing order
RECURSIVE Sorted(_)
Sorted(S) ==
    IF S = {} THEN << >>
    ELSE LET x == CHOOSE y \in S : \A z \in S : y <= z
         IN <<x>> \o Sorted(S \ {x})

\* st with its layers renumbered as Ls lists them, its interfaces as Is
\* lists them, and the metals and vias that are not in g emptied
Renumbered(st, g, Ls, Is) ==
    [layers |-> [k \in 1..Len(Ls) |->
                   [st.layers[Ls[k]] EXCEPT !.top_interface = Index(Is, @),
                                            !.bottom_interface = Index(Is, @)]],
     itfs |-> [k \in 1..Len(Is) |->
                   [st.itfs[Is[k]] EXCEPT !.bottom_layer = Index(Ls, @),
                                          !.top_layer = Index(Ls, @)]],
     metals |-> [m \in 1..Len(st.metals) |->
                   IF m \in g.Ms
                   THEN [st.metals[m] EXCEPT !.top_interface = Index(Is, @),
                                             !.bottom_interface = Index(Is, @)]
                   ELSE NewMetal(m, 0, UP)],
     viaobjs |-> [v \in 1..Len(st.viaobjs) |->
                   IF v \in g.Vs THEN st.viaobjs[v]
                   ELSE [top_metal |-> None, bottom_metal |-> None,
                         stack |-> FALSE]],
     interfaces |-> [k \in 1..Len(st.interfaces) |-> Index(Is, st.interfaces[k])],
     oxide_layers |-> [k \in 1..Len(st.oxide_layers) |-> Index(Ls, st.oxide_layers[k])],
     metal_layers |-> st.metal_layers,
     vias |-> st.vias]

\* st with the objects g kept: the listed layers and interfaces first, in
\* list order, then the others in the order of their creation
Kept(st, g) ==
    Renumbered(st, g,
        <<BulkLayer>> \o st.oxide_layers
           \o Sorted(g.Ls \ ({BulkLayer} \cup SeqSet(st.oxide_layers))),
        st.interfaces \o Sorted(g.Is \ SeqSet(st.interfaces)))

\* st with its reachable layers and interfaces renumbered and the
\* unreachable objects dropped (an unreachable metal or via keeps its place,
\* emptied)
Collect(st) == Kept(st, Reachable(st, Roots(st)))

\* ------------------------------------------------------------------ actions
\* the bounds of one specification
MainBounds ==
    [choices |-> OxideChoices, oxide |-> MaxOxide, height |-> MaxHeight,
     metals |-> MaxMetals, vias |-> MaxVias, thickness |-> MaxMetalThickness,
     layers |-> MaxLayerObjects, itfs |-> MaxInterfaceObjects]

PipeBounds ==
    [choices |-> OxideChoices, oxide |-> PipeOxide, height |-> PipeHeight,
     metals |-> PipeMetals, vias |-> 0, thickness |-> PipeMetalThickness,
     layers |-> PipeLayerObjects, itfs |-> PipeInterfaceObjects]

SeriesBounds ==
    [choices |-> SeriesChoices, oxide |-> SeriesOxide, height |-> SeriesHeight,
     metals |-> 0, vias |-> 0, thickness |-> 0,
     layers |-> SeriesLayerObjects, itfs |-> SeriesInterfaceObjects]

ViaBounds ==
    [choices |-> OxideChoices, oxide |-> ViaOxide, height |-> ViaHeight,
     metals |-> ViaMetals, vias |-> ViaVias, thickness |-> ViaMetalThickness,
     layers |-> ViaLayerObjects, itfs |-> ViaInterfaceObjects]

\* the objects alive after a call fit the bounds
Fits(st, b) ==
    /\ Len(st.layers) <= b.layers
    /\ Len(st.itfs) <= b.itfs

\* the call `name` made in the current state ended as r says
Call(name, r, b) ==
    /\ raised <= MaxRaised
    /\ \E res \in {r} : \E st \in {IF res.st = Cur THEN Cur ELSE Collect(res.st)} :
          /\ Fits(st, b)
          /\ layers' = st.layers
          /\ itfs' = st.itfs
          /\ metals' = st.metals
          /\ viaobjs' = st.viaobjs
          /\ interfaces' = st.interfaces
          /\ oxide_layers' = st.oxide_layers
          /\ metal_layers' = st.metal_layers
          /\ vias' = st.vias
          /\ op' = [name |-> name, ok |-> res.ok]
          /\ raised' = IF res.ok THEN raised ELSE raised + 1

Init ==
    /\ layers = NewStack.layers
    /\ itfs = NewStack.itfs
    /\ metals = NewStack.metals
    /\ viaobjs = NewStack.viaobjs
    /\ interfaces = NewStack.interfaces
    /\ oxide_layers = NewStack.oxide_layers
    /\ metal_layers = NewStack.metal_layers
    /\ vias = NewStack.vias
    /\ op = [name |-> "__init__", ok |-> TRUE]
    /\ raised = 0

DoAddOxideLayerOnTop(b) ==
    /\ Len(oxide_layers) < b.oxide
    /\ \E c \in b.choices :
          /\ GetStackHeight(Cur) + c[1] <= b.height
          /\ Call("add_oxide_layer_on_top",
                  AddOxideLayerOnTop(Cur, c[1], <<c[2], 1>>, <<c[3], 1>>), b)

DoAddMetalLayer(b) ==
    /\ Len(metals) < b.metals
    /\ \E thickness \in 1..b.thickness, extend_direction \in {DOWN, UP},
       interface_number \in 0..Len(interfaces) :
          Call("add_metal_layer",
               AddMetalLayer(Cur, thickness, extend_direction, interface_number), b)

DoAddVia(b) ==
    /\ Len(viaobjs) < b.vias
    /\ \E metal1_name \in 1..b.metals, metal2_name \in 1..b.metals :
          Call("add_via", AddVia(Cur, metal1_name, metal2_name), b)

DoRemoveMetalLayerByName(b) ==
    \E name \in 1..b.metals :
          Call("remove_metal_layer_by_name", RemoveMetalLayerByName(Cur, name), b)

\* callers split anywhere from below the bulk top to above the top of the stack
DoSplitOxideLayer(b) ==
    \E position \in (0 - 1)..(GetStackHeight(Cur) + 1) :
          Call("split_oxide_layer", SplitOxideLayer(Cur, position), b)

DoStandardize(b) == Call("standardize", Standardize(Cur), b)

\* the runs callers pass: every slice of stack.oxide_layers (the empty one
\* and the single layers too), any two layers in any order, and two
\* adjacent layers followed by any third
Runs(st) ==
    LET n == Len(st.oxide_layers)
        S == {st.oxide_layers[k] : k \in 1..n}
    IN {SubSeq(st.oxide_layers, a, b) : a \in 1..(n + 1), b \in 0..n}
       \cup {<<a, b>> : a \in S, b \in S}
       \cup {SubSeq(st.oxide_layers, a, a + 1) \o <<c>> : a \in 1..(n - 1), c \in S}

DoMergeOxideLayers(b) ==
    \E run \in Runs(Cur) :
          Call("merge_oxide_layers", MergeOxideLayers(Cur, run), b)

DoSimplify(b) == Call("simplify", Simplify(Cur), b)

DoWriteMomentumSubstrate(b) ==
    Call("write_momentum_substrate", WriteMomentumSubstrate(Cur), b)

DoWriteSonnetTechnology(b) ==
    Call("write_sonnet_technology", WriteSonnetTechnology(Cur), b)

Next ==
    \/ DoAddOxideLayerOnTop(MainBounds)
    \/ DoAddMetalLayer(MainBounds)
    \/ DoAddVia(MainBounds)
    \/ DoRemoveMetalLayerByName(MainBounds)
    \/ DoSplitOxideLayer(MainBounds)
    \/ DoStandardize(MainBounds)
    \/ DoMergeOxideLayers(MainBounds)
    \/ DoSimplify(MainBounds)
    \/ DoWriteMomentumSubstrate(MainBounds)
    \/ DoWriteSonnetTechnology(MainBounds)

Spec == Init /\ [][Next]_vars

\* a caller that builds the stack, attaches the metals and simplifies
NextPipeline ==
    \/ DoAddOxideLayerOnTop(PipeBounds)
    \/ DoAddMetalLayer(PipeBounds)
    \/ DoStandardize(PipeBounds)
    \/ DoSimplify(PipeBounds)

SpecPipeline == Init /\ [][NextPipeline]_vars

\* a caller that stacks and merges the layers of the example
NextSeries ==
    \/ DoAddOxideLayerOnTop(SeriesBounds)
    \/ DoMergeOxideLayers(SeriesBounds)

SpecSeries == Init /\ [][NextSeries]_vars

\* a caller that attaches metals, connects them with vias, removes metals
\* and exports
NextVias ==
    \/ DoAddOxideLayerOnTop(ViaBounds)
    \/ DoAddMetalLayer(ViaBounds)
    \/ DoAddVia(ViaBounds)
    \/ DoRemoveMetalLayerByName(ViaBounds)
    \/ DoStandardize(ViaBounds)
    \/ DoWriteMomentumSubstrate(ViaBounds)
    \/ DoWriteSonnetTechnology(ViaBounds)

SpecVias == Init /\ [][NextVias]_vars

\* the stored state is always in collected form
Collected == Collect(Cur) = Cur

\* --------------------------------------------------------------- properties
\* the positions of the interfaces of stack.interfaces, bottom to top
Positions(st) == [k \in 1..Len(st.interfaces) |-> PositionSum(st, k)]

\* (thickness, epsilon_rel, loss_tangent) of the layers of stack.oxide_layers
LayerProps(st) ==
    [k \in 1..Len(st.oxide_layers) |->
        <<st.layers[st.oxide_layers[k]].thickness,
          st.layers[st.oxide_layers[k]].epsilon_rel,
          st.layers[st.oxide_layers[k]].loss_tangent>>]

\* the thicknesses of the layers run[1..k] added up
RECURSIVE RunThickness(_, _, _)
RunThickness(st, run, k) ==
    IF k = 0 THEN 0 ELSE RunThickness(st, run, k - 1) + st.layers[run[k]].thickness

\* oxide_layers[i] lies between interfaces[i] and interfaces[i + 1], and both
\* point back at it (indices from 0 in the code, from 1 here)
Adjacent(st) ==
    /\ Len(st.interfaces) = Len(st.oxide_layers) + 1
    /\ \A i \in 1..Len(st.oxide_layers) :
          LET l == st.oxide_layers[i]
          IN /\ st.layers[l].bottom_interface = st.interfaces[i]
             /\ st.itfs[st.interfaces[i]].top_layer = l
             /\ st.layers[l].top_interface = st.interfaces[i + 1]
             /\ st.itfs[st.interfaces[i + 1]].bottom_layer = l

\* metal m is as add_metal_layer left it: attached to one interface of the
\* list on the side its direction says, the other side not yet set
Fresh(st, m) ==
    LET x == st.metals[m]
    IN IF x.extend_direction = DOWN
       THEN x.bottom_interface = None /\ Contains(st.interfaces, x.top_interface)
       ELSE x.top_interface = None /\ Contains(st.interfaces, x.bottom_interface)

\* the interface add_metal_layer attached the fresh metal m to
AttachedTo(st, m) ==
    IF st.metals[m].extend_direction = DOWN
    THEN st.metals[m].top_interface ELSE st.metals[m].bottom_interface

\* where the boundary of the fresh metal m away from its interface falls
FarBoundary(st, m) ==
    GetInterfacePosition(st, AttachedTo(st, m))
       + st.metals[m].extend_direction * st.metals[m].thickness

C2_Adjacency ==
    op.name \in {"add_oxide_layer_on_top", "split_oxide_layer", "standardize",
                 "merge_oxide_layers", "simplify"}
       => Adjacent(Cur)

\* C3: after standardize returns, every metal of metal_layers has its bottom
\* and its top interface set and extends up, and is_standard() is true.
C3_StandardizePost ==
    (op.name = "standardize" /\ op.ok /\ Len(oxide_layers) >= 1)
       => /\ \A k \in 1..Len(metal_layers) :
                LET x == metals[metal_layers[k]]
                IN /\ x.bottom_interface # None
                   /\ x.top_interface # None
                   /\ x.extend_direction = UP
          /\ IsStandard(Cur)

\* C4 (as the code has it): when simplify returns, stack.interfaces holds
\* the top of the bulk, the top of the stack and the bottom interface of
\* every metal, each once, and no other interface.
C4_SimplifyKeepsAttachments ==
    LET r == Simplify(Cur)
    IN r.ok =>
         /\ SeqSet(r.st.interfaces) =
               {r.st.layers[BulkLayer].top_interface, interfaces[Len(interfaces)]}
                  \cup {r.st.metals[r.st.metal_layers[k]].bottom_interface :
                           k \in 1..Len(r.st.metal_layers)}
         /\ Cardinality(SeqSet(r.st.interfaces)) = Len(r.st.interfaces)

\* simplify has returned on a stack with a metal whose top interface it
\* merged away
C4_Witness ==
    /\ op.name = "simplify" /\ op.ok
    /\ Len(interfaces) >= 3
    /\ \E k \in 1..Len(metal_layers) :
          /\ metals[metal_layers[k]].top_interface # None
          /\ ~Contains(interfaces, metals[metal_layers[k]].top_interface)

\* C4 (as stated): after simplify, the bottom and the top interface of every
\* metal are members of stack.interfaces, and every interface between the
\* top of the bulk and the top of the stack is one of them.
C4_BothBoundaries ==
    (op.name = "simplify" /\ op.ok)
       => /\ \A k \in 1..Len(metal_layers) :
                /\ Contains(interfaces, metals[metal_layers[k]].bottom_interface)
                /\ Contains(interfaces, metals[metal_layers[k]].top_interface)
          /\ \A i \in 2..(Len(interfaces) - 1) :
                \E k \in 1..Len(metal_layers) :
                   interfaces[i] \in {metals[metal_layers[k]].bottom_interface,
                                      metals[metal_layers[k]].top_interface}

\* C5: on a bulk with three oxide layers and one metal added at interface 2
\* (counted from 0), whatever its direction and whatever thickness keeps it
\* inside the oxide stack, simplify returns and leaves three interfaces.
C5_SimplifyCompletes ==
    (/\ Len(oxide_layers) = 3 /\ Len(interfaces) = 4
     /\ metal_layers = <<1>> /\ Len(metals) = 1
     /\ Fresh(Cur, 1) /\ AttachedTo(Cur, 1) = interfaces[3]
     /\ 0 < FarBoundary(Cur, 1) /\ FarBoundary(Cur, 1) < GetStackHeight(Cur))
       => LET r == Simplify(Cur)
          IN r.ok /\ Len(r.st.interfaces) = 3

\* C6: on a stack simplify has just returned on, a second simplify returns
\* and leaves interfaces and oxide_layers (count, order, thickness,
\* permittivity, loss tangent) as they were.
C6_SimplifyIdempotent ==
    (op.name = "simplify" /\ op.ok)
       => LET r == Simplify(Cur)
          IN /\ r.ok
             /\ r.st.interfaces = interfaces
             /\ r.st.oxide_layers = oxide_layers
             /\ LayerProps(r.st) = LayerProps(Cur)

\* the stack without its metals
Unattached(st) ==
    [st EXCEPT !.metals = << >>, !.metal_layers = << >>,
               !.itfs = [i \in 1..Len(st.itfs) |-> [st.itfs[i] EXCEPT !.metal = None]]]

\* the stack with the fresh metals a and then b of st added to it by
\* add_metal_layer, in this order
AddedInOrder(st, a, b) ==
    LET first == AddMetalLayer(Unattached(st), st.metals[a].thickness,
                               st.metals[a].extend_direction,
                               Index(st.interfaces, AttachedTo(st, a)) - 1)
    IN AddMetalLayer(first.st, st.metals[b].thickness,
                     st.metals[b].extend_direction,
                     Index(st.interfaces, AttachedTo(st, b)) - 1).st

\* what simplify produced: where the interfaces are, what the layers are,
\* and where each metal starts and ends
Geometry(st) ==
    [positions |-> Positions(st),
     oxide |-> LayerProps(st),
     metal |-> {<<st.metals[st.metal_layers[k]].thickness,
                  GetInterfacePosition(st, st.metals[st.metal_layers[k]].bottom_interface),
                  GetInterfacePosition(st, st.metals[st.metal_layers[k]].top_interface)>> :
                   k \in 1..Len(st.metal_layers)}]

\* C7: for two metals attached at the same interfaces, simplify produces the
\* same stack whichever of the two add_metal_layer was given first.
C7_OrderIndependent ==
    (/\ metal_layers = <<1, 2>> /\ Len(metals) = 2
     /\ Fresh(Cur, 1) /\ Fresh(Cur, 2)
     /\ AddedInOrder(Cur, 1, 2) = Cur)
       => LET r1 == Simplify(Cur)
              r2 == Simplify(AddedInOrder(Cur, 2, 1))
          IN (r1.ok \/ r2.ok)
                => /\ r1.ok /\ r2.ok
                   /\ Geometry(r1.st) = Geometry(r2.st)

\* C8: on a stack whose layers and interfaces are linked in order,
\* merge_oxide_layers of a run oxide_layers[a..b] of two layers or more that
\* returns puts one layer in the place of the run, as thick as the run's
\* layers together; the stack is as high as before, and every interface it
\* keeps (the run's two boundaries and those outside the run) is where it
\* was.
C8_MergePreserves ==
    \A a \in 1..Len(oxide_layers), b \in 1..Len(oxide_layers) :
       (Adjacent(Cur) /\ a < b) =>
         LET run == SubSeq(oxide_layers, a, b)
             r == MergeOxideLayers(Cur, run)
         IN r.ok =>
              /\ Len(r.st.oxide_layers) = Len(oxide_layers) - (b - a)
              /\ \A k \in 1..Len(r.st.oxide_layers) :
                    k # a => r.st.oxide_layers[k] =
                                oxide_layers[IF k < a THEN k ELSE k + (b - a)]
              /\ r.st.layers[r.st.oxide_layers[a]].thickness =
                    RunThickness(Cur, run, Len(run))
              /\ GetStackHeight(r.st) = GetStackHeight(Cur)
              /\ r.st.interfaces =
                    SubSeq(interfaces, 1, a) \o SubSeq(interfaces, b + 1, Len(interfaces))
              /\ \A k \in 1..Len(r.st.interfaces) :
                    GetInterfacePosition(r.st, r.st.interfaces[k]) =
                       GetInterfacePosition(Cur, r.st.interfaces[k])

\* a merge has returned and left two layers that fill the whole height
C8_Witness ==
    /\ op.name = "merge_oxide_layers" /\ op.ok
    /\ Len(oxide_layers) = 2
    /\ GetStackHeight(Cur) = MaxHeight

\* the layers x below y are the two of the series example
SeriesPair(x, y) ==
    /\ {<<x.thickness, x.epsilon_rel>>, <<y.thickness, y.epsilon_rel>>} =
          {<<10, <<4, 1>>>>, <<20, <<7, 1>>>>}
    /\ x.loss_tangent = <<0, 1>> /\ y.loss_tangent = <<0, 1>>

\* C9 (as the code has it): on a stack whose layers and interfaces are linked
\* in order, merging two layers of 10 at permittivity 4 and 20 at
\* permittivity 7, loss tangent 0, gives one layer of thickness 30, loss
\* tangent 0 and permittivity 30 / (10/4 + 20/7) = 28/5 = 5.6.
C9_SeriesPermittivity ==
    \A a \in 1..(Len(oxide_layers) - 1) :
       (Adjacent(Cur)
        /\ SeriesPair(layers[oxide_layers[a]], layers[oxide_layers[a + 1]]))
          => LET r == MergeOxideLayers(Cur, SubSeq(oxide_layers, a, a + 1))
                 merged == r.st.layers[r.st.oxide_layers[a]]
             IN /\ r.ok
                /\ merged.thickness = 30
                /\ merged.loss_tangent = <<0, 1>>
                /\ merged.epsilon_rel = <<28, 5>>

\* the two layers of the example have been merged into the only layer
C9_Witness ==
    /\ op.name = "merge_oxide_layers" /\ op.ok
    /\ Len(oxide_layers) = 1
    /\ layers[oxide_layers[1]].thickness = 30
    /\ layers[oxide_layers[1]].epsilon_rel = <<28, 5>>

\* C9 (as stated): the merged layer has thickness 30, loss tangent 0 and a
\* permittivity that rounds to 5.37.
C9_RoundsTo537 ==
    \A a \in 1..(Len(oxide_layers) - 1) :
       (Adjacent(Cur)
        /\ SeriesPair(layers[oxide_layers[a]], layers[oxide_layers[a + 1]]))
          => LET r == MergeOxideLayers(Cur, SubSeq(oxide_layers, a, a + 1))
                 merged == r.st.layers[r.st.oxide_layers[a]]
             IN /\ r.ok
                /\ merged.thickness = 30
                /\ merged.loss_tangent = <<0, 1>>
                /\ 5365 * merged.epsilon_rel[2] <= 1000 * merged.epsilon_rel[1]
                /\ 1000 * merged.epsilon_rel[1] < 5375 * merged.epsilon_rel[2]

\* C10: a merge_oxide_layers that fails (a run of fewer than two layers, one
\* that is not contiguous bottom to top, one with a metal on an interior
\* interface) leaves interfaces, oxide_layers and every link between layers
\* and interfaces as they were.
C10_MergeAtomic ==
    \A run \in Runs(Cur) :
       LET r == MergeOxideLayers(Cur, run)
       IN ~r.ok =>
            /\ r.st.interfaces = interfaces
            /\ r.st.oxide_layers = oxide_layers
            /\ r.st.layers = layers
            /\ r.st.itfs = itfs

\* the metals of stack.metal_layers
ListedMetals(st) == SeqSet(st.metal_layers)

\* C11: when remove_metal_layer_by_name(n) returns, no via of stack.vias has
\* the removed metal as its top_metal or its bottom_metal, however many vias
\* referenced it, and get_via_by_top_metal and get_via_by_bottom_metal of the
\* removed metal find nothing.
C11_RemoveDropsVias ==
    \A m \in ListedMetals(Cur) :
       LET r == RemoveMetalLayerByName(Cur, metals[m].name)
       IN r.ok =>
            /\ \A k \in 1..Len(r.st.vias) :
                  /\ r.st.viaobjs[r.st.vias[k]].top_metal # m
                  /\ r.st.viaobjs[r.st.vias[k]].bottom_metal # m
            /\ GetViaByTopMetal(r.st, m) = None
            /\ GetViaByBottomMetal(r.st, m) = None

\* the position of the lower face of metal m, as get_via_height takes it:
\* an UP metal starts at its bottom interface, a DOWN metal ends its
\* thickness below its top interface
LowerFace(st, m) ==
    IF st.metals[m].extend_direction = DOWN
    THEN GetInterfacePosition(st, st.metals[m].top_interface) - st.metals[m].thickness
    ELSE GetInterfacePosition(st, st.metals[m].bottom_interface)

\* the position of the upper face of metal m, as get_via_height takes it
UpperFace(st, m) ==
    IF st.metals[m].extend_direction = UP
    THEN GetInterfacePosition(st, st.metals[m].bottom_interface) + st.metals[m].thickness
    ELSE GetInterfacePosition(st, st.metals[m].top_interface)

\* the interface whose position places metal m: the one of its direction
Placed(st, m) ==
    Contains(st.interfaces,
             IF st.metals[m].extend_direction = DOWN
             THEN st.metals[m].top_interface ELSE st.metals[m].bottom_interface)

\* metal b lies above metal a: it starts where a ends, or higher
Above(st, b, a) ==
    /\ Placed(st, a) /\ Placed(st, b)
    /\ LowerFace(st, b) >= UpperFace(st, a)

\* the via add_via has just appended to stack.vias
AddedVia(st) == st.viaobjs[st.vias[Len(st.vias)]]

\* C12: when metal b lies above metal a, add_via(v, b, a) and
\* add_via(v, a, b) both return with v.top_metal = b and v.bottom_metal = a,
\* whatever the directions of the two metals and whether or not the stack
\* has been standardized.
C12_ViaByPosition ==
    \A a \in ListedMetals(Cur), b \in ListedMetals(Cur) :
       Above(Cur, b, a) =>
          LET r1 == AddVia(Cur, metals[b].name, metals[a].name)
              r2 == AddVia(Cur, metals[a].name, metals[b].name)
          IN /\ r1.ok /\ r2.ok
             /\ AddedVia(r1.st).top_metal = b /\ AddedVia(r1.st).bottom_metal = a
             /\ AddedVia(r2.st).top_metal = b /\ AddedVia(r2.st).bottom_metal = a

\* metal.bottom_interface or metal.top_interface
ViaInterface(st, m) ==
    IF st.metals[m].bottom_interface # None
    THEN st.metals[m].bottom_interface ELSE st.metals[m].top_interface

\* C12 holds for two metals that add_via places by two different interfaces
C12_DistinctInterfaces ==
    \A a \in ListedMetals(Cur), b \in ListedMetals(Cur) :
       (Above(Cur, b, a) /\ ViaInterface(Cur, a) # ViaInterface(Cur, b)) =>
          LET r1 == AddVia(Cur, metals[b].name, metals[a].name)
              r2 == AddVia(Cur, metals[a].name, metals[b].name)
          IN /\ r1.ok /\ r2.ok
             /\ AddedVia(r1.st).top_metal = b /\ AddedVia(r1.st).bottom_metal = a
             /\ AddedVia(r2.st).top_metal = b /\ AddedVia(r2.st).bottom_metal = a

\* C13: in every reachable state (the layers callers add are of positive
\* thickness), get_interface_position of interfaces[0] is 0 and
\* get_interface_position grows strictly along stack.interfaces; splitting,
\* standardizing, merging and simplifying keep it so.
C13_PositionsIncrease ==
    /\ GetInterfacePosition(Cur, interfaces[1]) = 0
    /\ \A k \in 1..(Len(interfaces) - 1) :
          GetInterfacePosition(Cur, interfaces[k])
             < GetInterfacePosition(Cur, interfaces[k + 1])

\* a split has just cut the lower of two layers of thickness 2 in a stack
\* that carries a metal
C13_Witness ==
    /\ op.name = "split_oxide_layer" /\ op.ok
    /\ Len(metal_layers) = 1
    /\ Positions(Cur) = <<0, 1, 2, 4>>

\* C14: after every sequence of add_metal_layer, standardize, simplify and
\* remove_metal_layer_by_name, no interface is the interface that carries
\* the metal (the top interface of a DOWN metal, the bottom interface of an
\* UP metal) for two different metals of stack.metal_layers.
C14_OneMetalPerInterface ==
    \A a \in ListedMetals(Cur), b \in ListedMetals(Cur) :
       (a # b /\ AttachedTo(Cur, a) # None) => AttachedTo(Cur, a) # AttachedTo(Cur, b)

\* C15: get_via_height never returns a negative height as an ordinary
\* result: for a via between two metals of which the bottom one ends above
\* where the top one starts, the call does not return normally.
C15_NegativeHeightSurfaced ==
    \A k \in 1..Len(vias) :
       (/\ viaobjs[vias[k]].top_metal # viaobjs[vias[k]].bottom_metal
        /\ GetViaHeight(Cur, vias[k]).ok)
          => GetViaHeight(Cur, vias[k]).height >= 0

\* the metal on the bottom interface of an oxide layer, None when there is
\* none
MetalBelow(st, oxide_layer) == st.itfs[st.layers[oxide_layer].bottom_interface].metal

\* the 'metal above' value of an oxide layer: 2 with a metal on its bottom
\* interface, 1 without
MetalAboveAt(st, oxide_layer) ==
    IF MetalBelow(st, oxide_layer) # None THEN 2 ELSE 1

\* the 'via inside' value of an oxide layer: 1 when the metal on its bottom
\* interface is the top_metal of a via of stack.vias, else 0
ViaInsideAt(st, oxide_layer) ==
    IF /\ MetalBelow(st, oxide_layer) # None
       /\ \E v \in SeqSet(st.vias) :
             st.viaobjs[v].top_metal = MetalBelow(st, oxide_layer)
    THEN 1 ELSE 0

\* C16: in the file write_momentum_substrate writes, with the oxide layers
\* taken top to bottom, the k-th oxide record carries the 'metal above' and
\* 'via inside' values of the layer of record k - 1; the first oxide record
\* carries 1 and 0, and the bulk record carries the 'metal above' value of
\* the last (lowest) oxide layer.
C16_FlagsCarriedForward ==
    LET r == WriteMomentumSubstrate(Cur)
        text == MomentumFile(r)
        n == Len(r.st.oxide_layers)
    IN (r.ok /\ n >= 1) =>
         /\ Len(text) = n + 1
         /\ text[1].metal_above = 1 /\ text[1].via_inside = 0
         /\ \A k \in 2..n :
               /\ text[k].metal_above =
                     MetalAboveAt(r.st, r.st.oxide_layers[n + 2 - k])
               /\ text[k].via_inside =
                     ViaInsideAt(r.st, r.st.oxide_layers[n + 2 - k])
         /\ text[n + 1].metal_above = MetalAboveAt(r.st, r.st.oxide_layers[1])

\* write_momentum_substrate has returned and the record of the second oxide
\* layer from the top says that the layer above it holds a metal with a via
C16_Witness ==
    /\ op.name = "write_momentum_substrate" /\ op.ok
    /\ Len(oxide_layers) = 2
    /\ MomentumFile(WriteMomentumSubstrate(Cur))[2].metal_above = 2
    /\ MomentumFile(WriteMomentumSubstrate(Cur))[2].via_inside = 1
    /\ MomentumFile(WriteMomentumSubstrate(Cur))[3].metal_above = 1

\* C17: an add_metal_layer that is given an interface index that does not
\* exist fails and leaves metal_layers and the metal field of every
\* interface as they were: the metal is not left in metal_layers without an
\* interface.
C17_AddMetalAtomic ==
    \A thickness \in 1..MaxMetalThickness, extend_direction \in {DOWN, UP},
       interface_number \in (0 - Len(interfaces) - 1)..Len(interfaces) :
       LET r == AddMetalLayer(Cur, thickness, extend_direction, interface_number)
       IN ~r.ok =>
            /\ r.st.metal_layers = metal_layers
            /\ r.st.itfs = itfs

\* the places i (from 1) of the oxide layers that lie strictly around
\* position: interfaces[i] below it and interfaces[i + 1] above it
Straddling(st, position) ==
    {i \in 1..Len(st.oxide_layers) :
        /\ GetInterfacePosition(st, st.interfaces[i]) < position
        /\ position < GetInterfacePosition(st, st.interfaces[i + 1])}

\* r is what one split of oxide_layers[i] at position leaves of st
SplitOnceAt(st, r, i, position) ==
    LET L == st.oxide_layers[i]
        new == r.st.oxide_layers[i + 1]
    IN /\ r.ok /\ r.ret # None
       /\ ~Contains(st.interfaces, r.ret) /\ ~Contains(st.oxide_layers, new)
       /\ r.st.oxide_layers =
             SubSeq(st.oxide_layers, 1, i) \o <<new>>
                \o SubSeq(st.oxide_layers, i + 1, Len(st.oxide_layers))
       /\ r.st.interfaces =
             SubSeq(st.interfaces, 1, i) \o <<r.ret>>
                \o SubSeq(st.interfaces, i + 1, Len(st.interfaces))
       /\ r.st.layers[L].thickness =
             position - GetInterfacePosition(st, st.interfaces[i])
       /\ r.st.layers[new].thickness =
             GetInterfacePosition(st, st.interfaces[i + 1]) - position
       /\ r.st.layers[new].epsilon_rel = st.layers[L].epsilon_rel
       /\ r.st.layers[new].loss_tangent = st.layers[L].loss_tangent
       /\ \A k \in 1..Len(st.oxide_layers) :
             k # i => r.st.layers[st.oxide_layers[k]] = st.layers[st.oxide_layers[k]]
       /\ GetInterfacePosition(r.st, r.ret) = position
       /\ \A k \in 1..Len(st.interfaces) :
             GetInterfacePosition(r.st, st.interfaces[k]) =
                GetInterfacePosition(st, st.interfaces[k])
       /\ Adjacent(r.st)

\* C18: on a stack whose layers and interfaces are linked in order,
\* split_oxide_layer(position) with position strictly inside an oxide layer
\* L splits once: L ends at position, one new layer of L's permittivity and
\* loss tangent and of thickness (old top - position) lies directly above
\* L, one new interface lies between them at position, and every interface
\* there was is where it was; when no layer lies strictly around position
\* it returns no interface and leaves the stack as it was.
C18_SplitOnce ==
    \A position \in (0 - 1)..(GetStackHeight(Cur) + 1) :
       Adjacent(Cur) =>
          LET r == SplitOxideLayer(Cur, position)
          IN IF Straddling(Cur, position) = {}
             THEN r.ok /\ r.ret = None /\ r.st = Cur
             ELSE \A i \in Straddling(Cur, position) : SplitOnceAt(Cur, r, i, position)

\* a split has just cut a layer of a full stack of layers linked in order
C18_Witness ==
    /\ op.name = "split_oxide_layer" /\ op.ok
    /\ Len(oxide_layers) = MaxOxide + 1
    /\ Adjacent(Cur)

\* C19: on a stack whose layers and interfaces are linked in order, with
\* every metal on an interface and every via between two metals, when
\* write_momentum_substrate or write_sonnet_technology has finished, by
\* returning or by raising part-way, oxide_layers is again in bottom-to-top
\* order, each oxide_layers[i] between interfaces[i] and interfaces[i + 1].
C19_ExportKeepsOrder ==
    (/\ Adjacent(Cur)
     /\ \A m \in ListedMetals(Cur) : Placed(Cur, m)
     /\ \A v \in SeqSet(vias) : viaobjs[v].top_metal # viaobjs[v].bottom_metal) =>
       /\ Adjacent(WriteMomentumSubstrate(Cur).st)
       /\ Adjacent(WriteSonnetTechnology(Cur).st)

\* the stack is well formed: at least one oxide layer, layers and interfaces
\* linked in order, and the metals of metal_layers each on an interface of
\* their own, inside the oxide stack, listed bottom to top without overlap
WellFormed(st) ==
    /\ Len(st.oxide_layers) >= 1
    /\ Adjacent(st)
    /\ \A k \in 1..Len(st.metal_layers) :
          LET m == st.metal_layers[k]
          IN /\ Placed(st, m)
             /\ 0 <= LowerFace(st, m)
             /\ UpperFace(st, m) <= GetStackHeight(st)
             /\ \A j \in 1..(k - 1) :
                   /\ UpperFace(st, st.metal_layers[j]) <= LowerFace(st, m)
                   /\ AttachedTo(st, st.metal_layers[j]) # AttachedTo(st, m)

\* C20: simplify returns normally on every well-formed stack, also when the
\* layers between two consecutive boundaries (the top of the bulk, the
\* bottom interface of a metal, the top of the stack) are a single layer
\* already.
C20_SimplifyOnWellFormed ==
    WellFormed(Cur) => Simplify(Cur).ok

\* the metals of metal_layers are each on an interface of their own, inside
\* the oxide stack, and no two of them overlap, in whatever order they are
\* listed
MetalsApart(st) ==
    /\ Adjacent(st)
    /\ \A m \in ListedMetals(st) :
          /\ Placed(st, m)
          /\ 0 <= LowerFace(st, m)
          /\ UpperFace(st, m) <= GetStackHeight(st)
    /\ \A a \in ListedMetals(st), b \in ListedMetals(st) :
          a # b => /\ AttachedTo(st, a) # AttachedTo(st, b)
                   /\ \/ UpperFace(st, a) <= LowerFace(st, b)
                      \/ UpperFace(st, b) <= LowerFace(st, a)

\* the interfaces (of the list or not) whose metal field is m
CarriedBy(st, m) == {i \in 1..Len(st.itfs) : st.itfs[i].metal = m}

\* C21: when standardize returns on a stack of metals that do not overlap
\* and are attached to interfaces of their own, every metal is the metal of
\* its own bottom interface and of no other interface, in whatever order the
\* metals were added.
C21_OwnBottomInterface ==
    MetalsApart(Cur) =>
       LET r == Standardize(Cur)
       IN r.ok =>
            \A m \in ListedMetals(r.st) :
               CarriedBy(r.st, m) = {r.st.metals[m].bottom_interface}

\* C22: on a stack of metals that do not overlap and are attached to
\* interfaces of their own, when remove_metal_layer_by_name(n) returns,
\* every interface whose metal was another metal m still has m as its
\* metal, and oxide_layers and interfaces are as they were.
C22_RemoveLeavesOthers ==
    MetalsApart(Cur) =>
       \A n \in ListedMetals(Cur) :
          LET r == RemoveMetalLayerByName(Cur, metals[n].name)
          IN r.ok =>
               /\ \A m \in ListedMetals(Cur) \ {n} :
                     CarriedBy(Cur, m) \subseteq CarriedBy(r.st, m)
               /\ r.st.oxide_layers = oxide_layers
               /\ r.st.interfaces = interfaces

\* where each metal of metal_layers starts and ends
Faces(st) ==
    [k \in 1..Len(st.metal_layers) |->
        <<LowerFace(st, st.metal_layers[k]), UpperFace(st, st.metal_layers[k])>>]

\* what get_via_height gives for each via of stack.vias
ViaHeights(st) == [k \in 1..Len(st.vias) |-> GetViaHeight(st, st.vias[k])]

\* C23: with a via added between any two metals of the stack, the lower and
\* upper face of every metal and the height of the via are the same before
\* standardize, after standardize has returned, and after the simplify that
\* follows has returned.
C23_GeometryPreserved ==
    \A a \in ListedMetals(Cur), b \in ListedMetals(Cur) :
       LET before == AddVia(Cur, metals[a].name, metals[b].name).st
           r1 == Standardize(before)
           r2 == Simplify(r1.st)
       IN /\ r1.ok => /\ Faces(r1.st) = Faces(before)
                      /\ ViaHeights(r1.st) = ViaHeights(before)
          /\ (r1.ok /\ r2.ok) => /\ Faces(r2.st) = Faces(before)
                                 /\ ViaHeights(r2.st) = ViaHeights(before)

\* two metals have just been added, the lower one extending down, a gap
\* between them; standardize and then simplify return
C23_Witness ==
    /\ op.name = "add_metal_layer" /\ op.ok
    /\ metal_layers = <<1, 2>>
    /\ Fresh(Cur, 1) /\ Fresh(Cur, 2)
    /\ metals[1].extend_direction = DOWN
    /\ LowerFace(Cur, 2) - UpperFace(Cur, 1) = 1
    /\ Standardize(Cur).ok
    /\ Simplify(Standardize(Cur).st).ok
    /\ Len(Simplify(Standardize(Cur).st).st.interfaces) < Len(Standardize(Cur).st.interfaces)

====
